---- MODULE Spec2Model ----
(***************************************************************************)
(* A model of the two Python fragments of the galois package:              *)
(*                                                                         *)
(*   python/galois/numba/galois.py       the numba overloads that expose a *)
(*                                       PropertyGraph handle as a         *)
(*                                       container: len(g), g.nodes(),     *)
(*                                       g.edges(n)                        *)
(*   python/galois/util/template_type.py the TemplateType1 metaclass: one  *)
(*                                       name standing for a family of     *)
(*                                       dtype-indexed concrete classes    *)
(*                                                                         *)
(* The PropertyGraph handle itself (num_nodes, edge_index) is compiled     *)
(* code that is not part of these fragments; it is modelled from the       *)
(* specification's description of the CSR topology store.                  *)
(***************************************************************************)
EXTENDS Integers, Sequences, FiniteSets, TLC

VARIABLES
    edge_range_end,  \* the store's array of per-node edge-range ends
    gcall,           \* the last call made on the graph handle
    gret,            \* what that call returned or raised
    rng,             \* the range object the last nodes() call returned
    it,              \* the iterator running over rng, if any
    yielded,         \* the values the running iterator has produced
    runs,            \* the sequences produced by the completed iterations
    supplied,        \* the mapping handed to make_template_type1
    facade,          \* the class TemplateType1.__new__ built
    rcall,           \* the last operation on the template type
    rret             \* what that operation returned or raised

gvars == <<edge_range_end, gcall, gret, rng, it, yielded, runs>>
rvars == <<supplied, facade, rcall, rret>>
vars == <<edge_range_end, gcall, gret, rng, it, yielded, runs,
          supplied, facade, rcall, rret>>

-----------------------------------------------------------------------------
(* Bounds of the model *)

MaxNodes == 3
MaxEdges == 3
MaxRuns == 2
MaxEntries == 2
MaxArgs == 1

-----------------------------------------------------------------------------
(* Results of calls: a value returned or an exception raised *)

Return(v) == [kind |-> "return", val |-> v, err |-> "", msg |-> ""]
Raise(e, m) == [kind |-> "raise", val |-> 0, err |-> e, msg |-> m]
NoResult == [kind |-> "none", val |-> 0, err |-> "", msg |-> ""]

\* A Python range(start, stop) object.
Range(start, stop) == [start |-> start, stop |-> stop]
NoRange == [start |-> -1, stop |-> -1]

-----------------------------------------------------------------------------
(* The CSR topology store behind the PropertyGraph handle *)

IndexOutOfRange == "IndexOutOfRange"

IsMonotone(s) == \A i \in 1..(Len(s) - 1) : s[i] <= s[i + 1]

\* The arrays a loader may supply: monotone non-decreasing edge-range ends.
Topologies ==
    UNION {{s \in [1..k -> 0..MaxEdges] : IsMonotone(s)} : k \in 0..MaxNodes}

num_nodes(store) == Len(store)

num_edges(store) == IF Len(store) = 0 THEN 0 ELSE store[Len(store)]

\* edge_index(n): the end of node n's slice; n is 0-based, the array 1-based.
edge_index(store, n) ==
    IF 0 <= n /\ n < num_nodes(store)
    THEN Return(store[n + 1])
    ELSE Raise(IndexOutOfRange, "")

-----------------------------------------------------------------------------
(* numba/galois.py *)

NodeTypes == {"uint64", "int64"}

\* @overload(len): impl returns self.num_nodes()
impl_len(store) == Return(num_nodes(store))

\* A mutant of impl_nodes: the range runs one past the last node.
impl_nodes_inclusive(store) == Return(Range(0, num_nodes(store) + 1))

\* @overload_method(..., "nodes"): impl returns range(self.num_nodes())
impl_nodes(store) == Return(Range(0, num_nodes(store)))

\* A mutant of impl_edges: the first node is not special-cased and the
\* range of node n starts at the end of node n itself.
impl_edges_shifted(store, n) ==
    LET e == edge_index(store, n)
    IN  IF e.kind = "raise" THEN e ELSE Return(Range(e.val, e.val))

\* A mutant of impl_edges: an index past the last node is clamped to it.
impl_edges_clamped(store, n) ==
    LET m == IF n >= num_nodes(store) /\ num_nodes(store) > 0
             THEN num_nodes(store) - 1 ELSE n
        prev == IF m = 0 THEN Return(0) ELSE edge_index(store, m - 1)
        e == edge_index(store, m)
    IN  IF prev.kind = "raise" THEN prev
        ELSE IF e.kind = "raise" THEN e
        ELSE Return(Range(prev.val, e.val))

\* @overload_method(..., "edges"): impl
impl_edges(store, n) ==
    LET prev == IF n = 0 THEN Return(0) ELSE edge_index(store, n - 1)
    IN  IF prev.kind = "raise" THEN prev
        ELSE LET e == edge_index(store, n)
             IN  IF e.kind = "raise" THEN e
                 ELSE Return(Range(prev.val, e.val))

\* overload_PropertyGraph_edges: an implementation exists only for an
\* unsigned integer argument; otherwise the overload yields None and the
\* call does not type.
overload_PropertyGraph_edges(store, n, ntype) ==
    IF ntype = "uint64" THEN impl_edges(store, n)
    ELSE Raise("TypingError", "")

GIdle == [op |-> "none", n |-> 0, ntype |-> ""]

InitGraphIdle ==
    /\ gcall = GIdle
    /\ gret = NoResult
    /\ rng = NoRange
    /\ it = -1
    /\ yielded = <<>>
    /\ runs = <<>>

CallLen ==
    /\ gcall' = [op |-> "len", n |-> 0, ntype |-> ""]
    /\ gret' = impl_len(edge_range_end)
    /\ UNCHANGED <<edge_range_end, rng, it, yielded, runs>>
    /\ UNCHANGED rvars

\* g.nodes() hands back a fresh range object; nothing iterates it yet, and
\* the iterations recorded are those of the range last returned.
CallNodes ==
    /\ gcall' = [op |-> "nodes", n |-> 0, ntype |-> ""]
    /\ gret' = impl_nodes(edge_range_end)
    /\ rng' = impl_nodes(edge_range_end).val
    /\ it' = -1
    /\ yielded' = <<>>
    /\ runs' = <<>>
    /\ UNCHANGED edge_range_end
    /\ UNCHANGED rvars

\* iter(rng): a new iterator positioned at the range's start.
IterStart ==
    /\ rng # NoRange
    /\ it = -1
    /\ Len(runs) < MaxRuns
    /\ it' = rng.start
    /\ yielded' = <<>>
    /\ UNCHANGED <<edge_range_end, gcall, gret, rng, runs>>
    /\ UNCHANGED rvars

\* next(iterator): the next value, or StopIteration at the range's stop.
IterNext ==
    /\ it # -1
    /\ IF it < rng.stop
       THEN /\ yielded' = Append(yielded, it)
            /\ it' = it + 1
            /\ runs' = runs
       ELSE /\ runs' = Append(runs, yielded)
            /\ it' = -1
            /\ yielded' = <<>>
    /\ UNCHANGED <<edge_range_end, gcall, gret, rng>>
    /\ UNCHANGED rvars

CallEdges ==
    \E n \in 0..(MaxNodes + 1), ntype \in NodeTypes :
        /\ gcall' = [op |-> "edges", n |-> n, ntype |-> ntype]
        /\ gret' = overload_PropertyGraph_edges(edge_range_end, n, ntype)
        /\ UNCHANGED <<edge_range_end, rng, it, yielded, runs>>
        /\ UNCHANGED rvars

-----------------------------------------------------------------------------
(* numpy.dtype: the canonical dtype of a dtype-like descriptor *)

ValidSpellings == {"int32", "i4", "int64", "i8", "float32"}
Spellings == ValidSpellings \cup {"bogus"}

\* np.dtype(item): several spellings name one dtype; a descriptor numpy
\* does not understand raises TypeError.
np_dtype(item) ==
    CASE item \in {"int32", "i4"} -> Return("int32")
      [] item \in {"int64", "i8"} -> Return("int64")
      [] item = "float32" -> Return("float32")
      [] OTHER -> Raise("TypeError", "data type not understood")

-----------------------------------------------------------------------------
(* The classes the template type is used with *)

Classes == {"object", "Base", "TypeA", "SubA", "TypeB", "TypeC", "Other"}

\* The concrete classes a mapping may register.
Variants == {"TypeA", "TypeB", "TypeC"}

\* The single base of each class (object has none).
Parent(c) ==
    CASE c = "Base" -> "object"
      [] c = "TypeA" -> "Base"
      [] c = "SubA" -> "TypeA"
      [] c = "TypeB" -> "object"
      [] c = "TypeC" -> "object"
      [] c = "Other" -> "object"
      [] OTHER -> ""

\* c.__dict__: the attributes the class itself defines, by name.  A value
\* is named after the class that defines it.
ClassDict(c) ==
    CASE c = "object" ->
            [a \in {"__init__", "__new__", "__repr__"} |-> "object." \o a]
      [] c = "Base" ->
            [a \in {"describe", "__repr__"} |-> "Base." \o a]
      [] c = "TypeA" ->
            [a \in {"size", "__init__", "__representative__"} |-> "TypeA." \o a]
      [] c = "TypeB" ->
            [a \in {"size", "__new__", "__instantiations__"} |-> "TypeB." \o a]
      [] c = "TypeC" ->
            [a \in {"get", "__new__", "__init__"} |-> "TypeC." \o a]
      [] OTHER -> [a \in {} |-> ""]

\* What a __new__ does when called with a class:
\*   object.__new__ and TypeC.__new__ allocate an instance of that class,
\*   TypeB.__new__ hands back an existing object of its own.
NewAllocates(new) == new \in {"object.__new__", "TypeC.__new__"}

RECURSIVE IsSubclass(_, _)
\* issubclass(c, ty) for ordinary classes: ty is on c's chain of bases.
IsSubclass(c, ty) ==
    IF c = ty THEN TRUE
    ELSE IF Parent(c) = "" THEN FALSE
    ELSE IsSubclass(Parent(c), ty)

\* isinstance(obj, ty) for an object of class c.
IsInstance(c, ty) == IsSubclass(c, ty)

RECURSIVE ClassLookup(_, _)
\* getattr(c, name) on an ordinary class: the first definition along the
\* chain of bases, or AttributeError.
ClassLookup(c, name) ==
    IF name \in DOMAIN ClassDict(c) THEN Return(ClassDict(c)[name])
    ELSE IF Parent(c) = "" THEN Raise("AttributeError", name)
    ELSE ClassLookup(Parent(c), name)

AttrNames ==
    {"size", "describe", "get", "__repr__", "__init__", "__new__",
     "__getitem__", "__representative__", "__instantiations__", "missing"}

FacadeNames == {"T", "U"}

-----------------------------------------------------------------------------
(* util/template_type.py *)

\* A Python dict is an insertion-ordered sequence of <<key, value>> pairs.
DictKeys(d) == {d[i][1] : i \in 1..Len(d)}
DictGet(d, k) == d[CHOOSE i \in 1..Len(d) : d[i][1] = k][2]

\* d[k] = v: an existing key keeps its place and takes the new value, a new
\* key goes to the end.
DictSet(d, k, v) ==
    IF k \in DictKeys(d)
    THEN [i \in 1..Len(d) |-> IF d[i][1] = k THEN <<k, v>> ELSE d[i]]
    ELSE Append(d, <<k, v>>)

RECURSIVE NormaliseFrom(_, _, _)
\* {np.dtype(t): v for t, v in items}, from the i-th item on, into acc.
NormaliseFrom(items, i, acc) ==
    IF i > Len(items) THEN Return(acc)
    ELSE LET k == np_dtype(items[i][1])
         IN  IF k.kind = "raise" THEN k
             ELSE NormaliseFrom(items, i + 1, DictSet(acc, k.val, items[i][2]))

Normalise(items) == NormaliseFrom(items, 1, <<>>)

NoFacade ==
    [name |-> "", instantiations |-> <<>>, representative |-> "",
     attrs |-> [a \in {} |-> ""]]

\* The three names TemplateType1.__new__ sets after copying the
\* representative's dictionary.
OwnNames == {"__instantiations__", "__representative__", "__init__"}

\* The methods the metaclass defines.
MetaNames ==
    {"__new__", "__getitem__", "__instancecheck__", "__subclasscheck__",
     "__repr__"}

\* attrs after update(representative_type.__dict__) and the three
\* assignments that follow it.
FacadeAttrs(rep) ==
    [a \in DOMAIN ClassDict(rep) \cup OwnNames |->
        CASE a = "__instantiations__" -> "__instantiations__"
          [] a = "__representative__" -> rep
          [] a = "__init__" -> "_init_stub"
          [] OTHER -> ClassDict(rep)[a]]

\* A mutant of TemplateType1_new: an empty mapping builds a template type
\* with no representative instead of failing.
TemplateType1_new_lenient(name, items) ==
    LET inst == Normalise(items)
    IN  IF inst.kind = "raise" THEN inst
        ELSE IF Len(inst.val) = 0
        THEN Return([name |-> name, instantiations |-> <<>>,
                     representative |-> "object",
                     attrs |-> FacadeAttrs("object")])
        ELSE Return([name |-> name,
                     instantiations |-> inst.val,
                     representative |-> inst.val[1][2],
                     attrs |-> FacadeAttrs(inst.val[1][2])])

\* TemplateType1.__new__(cls, name, _bases, attrs), attrs holding
\* "instantiations": the class built, or the exception raised.
TemplateType1_new(name, items) ==
    LET inst == Normalise(items)
    IN  IF inst.kind = "raise" THEN inst
        ELSE IF Len(inst.val) = 0 THEN Raise("StopIteration", "")
        ELSE LET representative_type == inst.val[1][2]
             IN  Return([name |-> name,
                         instantiations |-> inst.val,
                         representative |-> representative_type,
                         attrs |-> FacadeAttrs(representative_type)])

make_template_type1(name, instantiations) ==
    TemplateType1_new(name, instantiations)

\* A mutant of TemplateType1_getitem: the item is looked up as spelled.
TemplateType1_getitem_raw(cls, item) ==
    IF item \in DictKeys(cls.instantiations)
    THEN Return(DictGet(cls.instantiations, item))
    ELSE Raise("KeyError", item)

\* TemplateType1.__getitem__(cls, item)
TemplateType1_getitem(cls, item) ==
    LET k == np_dtype(item)
    IN  IF k.kind = "raise" THEN k
        ELSE IF k.val \in DictKeys(cls.instantiations)
        THEN Return(DictGet(cls.instantiations, k.val))
        ELSE Raise("KeyError", k.val)

\* A mutant of TemplateType1_instancecheck: only the representative counts.
TemplateType1_instancecheck_rep(cls, c) ==
    Return(IsInstance(c, cls.representative))

\* TemplateType1.__instancecheck__(cls, instance), instance of class c
TemplateType1_instancecheck(cls, c) ==
    Return(\E i \in 1..Len(cls.instantiations) :
               IsInstance(c, cls.instantiations[i][2]))

\* TemplateType1.__subclasscheck__(cls, subclass)
TemplateType1_subclasscheck(cls, c) ==
    Return(\E i \in 1..Len(cls.instantiations) :
               IsSubclass(c, cls.instantiations[i][2]))

\* getattr(cls, name) on the built class, whose only base is object: the
\* class's own dictionary, then object's, then the metaclass's methods.
FacadeGetAttr(cls, name) ==
    IF name \in DOMAIN cls.attrs THEN Return(cls.attrs[name])
    ELSE IF name \in DOMAIN ClassDict("object")
    THEN Return(ClassDict("object")[name])
    ELSE IF name \in MetaNames THEN Return("TemplateType1." \o name)
    ELSE Raise("AttributeError", name)

\* _init_stub(self, *_args, **_kwargs)
init_stub(cls, nargs) == Raise("TypeError", cls.name)

\* object.__new__(cls, *args) refuses arguments unless cls overrides
\* __init__ and leaves __new__ alone.
ObjectNewAccepts(cls, nargs) ==
    \/ nargs = 0
    \/ "__new__" \notin DOMAIN cls.attrs /\ "__init__" \in DOMAIN cls.attrs

\* cls(*args): type.__call__ runs __new__ and, when that hands back an
\* instance of cls, __init__ on it; any other object is returned as it is.
FacadeCall(cls, nargs) ==
    LET new == FacadeGetAttr(cls, "__new__").val
    IN  IF new = "object.__new__" /\ ~ObjectNewAccepts(cls, nargs)
        THEN Raise("TypeError", "takes no arguments")
        ELSE IF NewAllocates(new) THEN init_stub(cls, nargs)
        ELSE Return(new \o "()")

RIdle == [op |-> "none", arg |-> "", nargs |-> 0]

InitRegistryIdle ==
    /\ supplied = <<>>
    /\ facade = NoFacade
    /\ rcall = RIdle
    /\ rret = NoResult

\* The mappings a module may declare: distinct descriptors, each with a
\* concrete class.
Mappings ==
    UNION {{m \in [1..k -> ValidSpellings \X Variants] :
               \A i, j \in 1..k : m[i][1] = m[j][1] => i = j}
           : k \in 0..MaxEntries}

Build ==
    \E name \in FacadeNames, m \in Mappings :
        LET r == make_template_type1(name, m)
        IN  /\ facade = NoFacade
            /\ supplied' = m
            /\ rcall' = [op |-> "build", arg |-> name, nargs |-> 0]
            /\ rret' = IF r.kind = "return" THEN Return(name) ELSE r
            /\ facade' = IF r.kind = "return" THEN r.val ELSE NoFacade
            /\ UNCHANGED gvars

Resolve ==
    \E item \in Spellings :
        /\ facade # NoFacade
        /\ rcall' = [op |-> "getitem", arg |-> item, nargs |-> 0]
        /\ rret' = TemplateType1_getitem(facade, item)
        /\ UNCHANGED <<supplied, facade>>
        /\ UNCHANGED gvars

InstanceCheck ==
    \E c \in Classes :
        /\ facade # NoFacade
        /\ rcall' = [op |-> "isinstance", arg |-> c, nargs |-> 0]
        /\ rret' = TemplateType1_instancecheck(facade, c)
        /\ UNCHANGED <<supplied, facade>>
        /\ UNCHANGED gvars

SubclassCheck ==
    \E c \in Classes :
        /\ facade # NoFacade
        /\ rcall' = [op |-> "issubclass", arg |-> c, nargs |-> 0]
        /\ rret' = TemplateType1_subclasscheck(facade, c)
        /\ UNCHANGED <<supplied, facade>>
        /\ UNCHANGED gvars

Construct ==
    \E nargs \in 0..MaxArgs :
        /\ facade # NoFacade
        /\ rcall' = [op |-> "call", arg |-> "", nargs |-> nargs]
        /\ rret' = FacadeCall(facade, nargs)
        /\ UNCHANGED <<supplied, facade>>
        /\ UNCHANGED gvars

GetAttr ==
    \E name \in AttrNames :
        /\ facade # NoFacade
        /\ rcall' = [op |-> "getattr", arg |-> name, nargs |-> 0]
        /\ rret' = FacadeGetAttr(facade, name)
        /\ UNCHANGED <<supplied, facade>>
        /\ UNCHANGED gvars

-----------------------------------------------------------------------------
(* Specifications *)

InitGraph ==
    /\ edge_range_end \in Topologies
    /\ InitGraphIdle
    /\ InitRegistryIdle

NextGraph == CallLen \/ CallNodes \/ IterStart \/ IterNext \/ CallEdges

SpecGraph == InitGraph /\ [][NextGraph]_vars

InitRegistry ==
    /\ edge_range_end = <<>>
    /\ InitGraphIdle
    /\ InitRegistryIdle

NextRegistry ==
    Build \/ Resolve \/ InstanceCheck \/ SubclassCheck \/ Construct \/ GetAttr

SpecRegistry == InitRegistry /\ [][NextRegistry]_vars

-----------------------------------------------------------------------------
(* The exceptions of the Python code under the names the specification     *)
(* gives them                                                              *)

EmptyRegistryError == "StopIteration"
UnknownVariantError == "KeyError"
DirectInstantiationError == "TypeError"

-----------------------------------------------------------------------------
(* Claims about the graph overloads, under SpecGraph *)

node_count == Len(edge_range_end)

EdgesCalled == gcall.op = "edges" /\ gcall.ntype = "uint64"

\* C1: for a valid topology and a node n with 0 <= n < node_count,
\* edges(n) is the range [begin, end) with begin = 0 for n = 0 and the
\* range end of node n - 1 otherwise, and end = the range end of node n;
\* begin <= end, and begin = end exactly when n has no out-edges.
C1_EdgeRange ==
    (EdgesCalled /\ gcall.n < node_count) =>
        LET n == gcall.n
            begin == IF n = 0 THEN 0 ELSE edge_range_end[n]
            end == edge_range_end[n + 1]
        IN  /\ gret.kind = "return"
            /\ gret.val = Range(begin, end)
            /\ gret.val.start <= gret.val.stop
            /\ (n = 0 => gret.val.start = 0)
            /\ (end = begin <=> gret.val.start = gret.val.stop)

\* The scenario nodes = 3, edge_range_end = [0, 2, 2]: edges(1) = [0, 2).
C1_Witness ==
    /\ edge_range_end = <<0, 2, 2>>
    /\ EdgesCalled /\ gcall.n = 1
    /\ gret = Return(Range(0, 2))

RECURSIVE SumOfRanges(_, _)
\* The sum of end - begin over edges(0), ..., edges(n - 1).
SumOfRanges(store, n) ==
    IF n = 0 THEN 0
    ELSE LET r == impl_edges(store, n - 1).val
         IN  (r.stop - r.start) + SumOfRanges(store, n - 1)

\* C2: the per-node ranges partition the edge array: they start at 0, each
\* ends where the next begins, the last ends at edge_count, and their
\* lengths sum to edge_count.
C2_Partition ==
    /\ \A n \in 0..(node_count - 1) :
          impl_edges(edge_range_end, n).kind = "return"
    /\ node_count > 0 =>
          /\ impl_edges(edge_range_end, 0).val.start = 0
          /\ impl_edges(edge_range_end, node_count - 1).val.stop
                = num_edges(edge_range_end)
    /\ \A n \in 0..(node_count - 2) :
          impl_edges(edge_range_end, n).val.stop
             = impl_edges(edge_range_end, n + 1).val.start
    /\ SumOfRanges(edge_range_end, node_count) = num_edges(edge_range_end)

\* edges() has answered for the last of three nodes of a graph in which
\* every node has out-edges.
C2_Witness ==
    /\ edge_range_end = <<1, 2, 3>>
    /\ EdgesCalled /\ gcall.n = 2
    /\ gret = Return(Range(2, 3))

\* C3: edges(n) with n >= node_count raises IndexOutOfRange and returns no
\* range; the index is not clamped to the last node.
C3_OutOfRange ==
    (EdgesCalled /\ gcall.n >= node_count) =>
        /\ gret.kind = "raise"
        /\ gret.err = IndexOutOfRange

\* edges(node_count) on a graph with nodes has raised.
C3_Witness ==
    /\ node_count = 2
    /\ EdgesCalled /\ gcall.n = node_count
    /\ gret.kind = "raise"

\* The sequence 0, 1, ..., n - 1.
UpTo(n) == [k \in 1..n |-> k - 1]

\* C4: len(store) is node_count; nodes() yields exactly 0, 1, ...,
\* node_count - 1 in increasing order, and every iteration of the same
\* range yields that same sequence.
C4_LenAndNodes ==
    /\ gcall.op = "len" => gret = Return(node_count)
    /\ gcall.op = "nodes" => gret.kind = "return" /\ gret.val = rng
    /\ rng # NoRange => rng = Range(0, node_count)
    /\ \A i \in 1..Len(runs) : runs[i] = UpTo(node_count)
    /\ it # -1 => /\ Len(yielded) <= node_count
                  /\ yielded = UpTo(Len(yielded))
                  /\ it = Len(yielded)

\* The range of a three-node graph has been iterated to the end twice.
C4_Witness ==
    /\ node_count = 3
    /\ Len(runs) = 2
    /\ runs[1] = <<0, 1, 2>> /\ runs[2] = <<0, 1, 2>>

-----------------------------------------------------------------------------
(* Claims about the template type, under SpecRegistry *)

Built == facade # NoFacade

Canon(t) == np_dtype(t).val

\* The entries of the supplied mapping that are registered: those no later
\* entry with the same canonical tag replaces.
RegisteredEntries ==
    {i \in 1..Len(supplied) :
        \A j \in (i + 1)..Len(supplied) :
            Canon(supplied[j][1]) # Canon(supplied[i][1])}

RegisteredTypes == {supplied[i][2] : i \in RegisteredEntries}

\* C5: resolve(tag) normalises the tag and returns the type registered
\* under its canonical form, in whatever spelling the tag is given; a tag
\* whose canonical form matches no entry fails with UnknownVariantError.
C5_Resolve ==
    (Built /\ rcall.op = "getitem" /\ rcall.arg \in ValidSpellings) =>
        LET hits == {i \in RegisteredEntries :
                        Canon(supplied[i][1]) = Canon(rcall.arg)}
        IN  IF hits = {}
            THEN rret.kind = "raise" /\ rret.err = UnknownVariantError
            ELSE \A i \in hits : rret = Return(supplied[i][2])

\* A type registered as "int32" has been resolved through the spelling "i4".
C5_Witness ==
    /\ Built /\ rcall.op = "getitem" /\ rcall.arg = "i4"
    /\ supplied = <<<<"int64", "TypeB">>, <<"int32", "TypeA">>>>
    /\ rret = Return("TypeA")

\* C6: isinstance against the template type is true iff the object is an
\* instance of at least one registered variant, and issubclass is true iff
\* the class is a subclass of at least one registered variant.
C6_Membership ==
    /\ (Built /\ rcall.op = "isinstance") =>
          /\ rret.kind = "return"
          /\ rret.val = (\E v \in RegisteredTypes : IsInstance(rcall.arg, v))
    /\ (Built /\ rcall.op = "issubclass") =>
          /\ rret.kind = "return"
          /\ rret.val = (\E v \in RegisteredTypes : IsSubclass(rcall.arg, v))

\* An instance of a subclass of the second variant has been accepted.
C6_Witness ==
    /\ Built /\ rcall.op = "isinstance" /\ rcall.arg = "SubA"
    /\ supplied = <<<<"int64", "TypeB">>, <<"int32", "TypeA">>>>
    /\ rret = Return(TRUE)

\* C7: calling the template type always fails with
\* DirectInstantiationError naming the template type, whatever the
\* arguments and whatever the representative defines; no object comes back.
C7_NeverInstantiable ==
    (Built /\ rcall.op = "call") =>
        /\ rret.kind = "raise"
        /\ rret.err = DirectInstantiationError
        /\ rret.msg = facade.name

\* C8: building from a mapping with no entries fails with
\* EmptyRegistryError and yields no template type; building from a mapping
\* with at least one entry succeeds.
C8_EmptyMapping ==
    /\ rcall.op = "build" =>
          IF Len(supplied) = 0
          THEN /\ rret.kind = "raise" /\ rret.err = EmptyRegistryError
               /\ ~Built
          ELSE /\ rret.kind = "return"
               /\ Built
    /\ Built => Len(supplied) > 0

\* A build from the empty mapping has failed.
C8_Witness ==
    /\ rcall.op = "build" /\ Len(supplied) = 0
    /\ rret.kind = "raise"

\* C9: the representative is the type of the first entry of the supplied
\* mapping, also when several supplied tags share a canonical form.
C9_FirstEntry ==
    Built => facade.representative = supplied[1][2]

\* C10: every attribute available on the representative - its own or
\* inherited - that the template type does not itself define is available
\* on the template type with the representative's value; the template
\* type's own three definitions are never replaced by the representative's.
C10_Forwarding ==
    (Built /\ rcall.op = "getattr") =>
        LET name == rcall.arg
            onRep == ClassLookup(facade.representative, name)
        IN  /\ (name \notin OwnNames /\ onRep.kind = "return") => rret = onRep
            /\ name = "__init__" => rret = Return("_init_stub")
            /\ name = "__representative__" =>
                  rret = Return(facade.representative)
            /\ name = "__instantiations__" =>
                  rret = Return("__instantiations__")

====
